---- MODULE Spec2Model ----
(***************************************************************************)
(* Audio merge pipeline of myteamberlin: the mixmerge routes of            *)
(* server/routes.ts driving mergeAudioFiles of server/audio.ts.            *)
(*                                                                         *)
(* A merge job is a database row; the POST /api/mixmerge/merge handler     *)
(* creates it, links its input files, schedules one setImmediate task and  *)
(* answers.  The task writes "processing", resolves the asset ids to       *)
(* paths, runs the engine (ffmpeg), and writes "completed" or "failed".    *)
(* The engine's progress events issue storage writes that are not awaited: *)
(* they are in flight until the database applies them, in any order.       *)
(***************************************************************************)
EXTENDS Integers, Sequences, FiniteSets, Bags, TLC

VARIABLES
    assets,        \* audio_files rows: asset id -> [filename, uploadedBy, mimeType, size]
    nextAssetId,   \* serial id of the next audio_files row
    disk,          \* names of the files present in uploads/
    jobs,          \* merge_jobs rows, indexed by the serial job id
    jobFiles,      \* job id -> the asset ids linked to the job, in order
    task,          \* job id -> position of the job's setImmediate task
    filePaths,     \* job id -> the task's local filePaths (names under uploads/)
    inflight,      \* job id -> bag of progress values whose write is issued, not applied
    responses,     \* job id -> the response sent to the request that created the row
    lastResponse,  \* the response to the most recent request
    lastRequest,   \* the most recent request: its route, its user, the id it names
    caught,        \* job id -> the error the task's catch block is handling
    calls,         \* the mergeAudioFiles calls made on their own, oldest first
    silenceFlags,  \* job id -> the removeSilence the task's closure holds
    served         \* the GET /uploads/:filename requests with their answers, oldest first

vars == <<assets, nextAssetId, disk, jobs, jobFiles, task, filePaths,
          inflight, responses, lastResponse, lastRequest, caught, calls,
          silenceFlags, served>>

----------------------------------------------------------------------------
(* Bounds of the model *)

MaxAssets == 1     \* uploads
MaxJobs == 2       \* merge submissions that create a row
MaxFiles == 1      \* asset ids in one submission
MaxInFlight == 1   \* progress writes of one job issued and not yet applied
MaxInputs == 3     \* input paths of one mergeAudioFiles call made on its own
MaxCalls == 2      \* mergeAudioFiles calls made on their own
MaxEvents == 1     \* 'progress' events of one such call
MaxServed == 2     \* GET /uploads/:filename requests
MaxListed == 3     \* asset ids in one submission where the order of the inputs is followed

Users == {"alice", "bob"}

----------------------------------------------------------------------------
(* Values *)

Null == <<"null">>
UndefinedName == <<"undefined">>
AudioName(id) == <<"audio", id>>
MergedName(j) == <<"merged", j>>
Now == <<"date">>

\* what the engine reports in progress.percent, in tenths of a percent;
\* defined = FALSE is an event that carries no percent
Percent(t) == [defined |-> TRUE, tenths |-> t]
NoPercent == [defined |-> FALSE, tenths |-> 0]
PercentInputs == {NoPercent, Percent(-15), Percent(1206)}

\* asset ids a request can name: the ids uploads can get, and one no upload gets
FileIdInputs == 1..(MaxAssets + 1)

\* req.params.id of a delete request: an id no upload has got yet, a stored
\* asset's id, or the id of an asset deleted before, as time goes
DeleteIdInputs == 1..MaxAssets

RECURSIVE SeqsUpTo(_, _)
SeqsUpTo(S, n) ==
    IF n = 0 THEN {<<>>}
    ELSE LET shorter == SeqsUpTo(S, n - 1)
         IN  shorter \cup {Append(s, x) : s \in {t \in shorter : Len(t) = n - 1}, x \in S}

\* request bodies' fileIds: absent, or an array of at most MaxFiles ids
NoFileIds == [isArray |-> FALSE, ids |-> <<>>]
FileIdsInputs == {NoFileIds} \cup {[isArray |-> TRUE, ids |-> s] : s \in SeqsUpTo(FileIdInputs, MaxFiles)}

\* request bodies' removeSilence where the routes are run as a whole: no step
\* of a route or of a task reads it, only the filter expression does
SilenceInputs == {FALSE}

----------------------------------------------------------------------------
(* Storage layer (server/storage.ts): the mixmerge tables *)

NoJob == [id |-> 0]

\* the multipart file part of an upload request: req.file
File(mimetype, size) == [present |-> TRUE, mimetype |-> mimetype, size |-> size]
NoFile == [present |-> FALSE, mimetype |-> <<>>, size |-> 0]

\* a request as the handlers see it: the route, req.user.claims.sub where the
\* handler uses it, req.params.id where the route has one, the file part
\* where the route takes one
NoUser == "nobody"
NoBody == [fileIds |-> NoFileIds, removeSilence |-> FALSE]
Request(route, userId, id) ==
    [route |-> route, userId |-> userId, id |-> id, file |-> NoFile, body |-> NoBody]
UploadRequest(userId, file) ==
    [route |-> "upload", userId |-> userId, id |-> 0, file |-> file, body |-> NoBody]
\* req.body of a merge request: {fileIds, removeSilence}
MergeRequest(fileIds, removeSilence) ==
    [route |-> "merge", userId |-> NoUser, id |-> 0, file |-> NoFile,
     body |-> [fileIds |-> fileIds, removeSilence |-> removeSilence]]

\* what a promise of the task rejected with
Failure(kind, detail) == [kind |-> kind, detail |-> detail]
NoError == Failure("none", <<>>)
StorageError == Failure("storage", <<>>)

\* an HTTP response: status code, the message of an error body, the job of a job body
Response(code, message, job) == [code |-> code, message |-> message, job |-> job]

\* insert into merge_jobs ... returning: the column defaults fill the rest
createMergeJob(id, values) ==
    [id |-> id,
     status |-> values.status,
     progress |-> 0,
     outputFile |-> Null,
     completedAt |-> Null]

\* update merge_jobs set <patch> where id = ...: only the columns of the patch change
replaceMergeJob(job, patch) ==
    [f \in DOMAIN job |->
        IF f \in DOMAIN patch THEN patch[f]
        ELSE IF f = "id" THEN job.id
        ELSE IF f = "status" THEN "pending"
        ELSE IF f = "progress" THEN 0
        ELSE Null]
updateMergeJob(job, patch) ==
    [f \in DOMAIN job |-> IF f \in DOMAIN patch THEN patch[f] ELSE job[f]]

\* select from audio_files where id = ...: the row, or undefined
hasAudioFile(id) == id \in DOMAIN assets

\* delete from audio_files where id = ... and uploaded_by = ...: rowCount > 0
deleteAudioFileOfAnyUser(id, userId) == id \in DOMAIN assets
deleteAudioFile(id, userId) == id \in DOMAIN assets /\ assets[id].uploadedBy = userId

----------------------------------------------------------------------------
(* Pure parts of the route handlers and of mergeAudioFiles *)

\* Math.floor of a value given in tenths
Round(tenths) == (tenths + 5) \div 10
Floor(tenths) == tenths \div 10

\* audio.ts 'progress' handler: progress.percent || 0 (in tenths)
PercentOrZero(p) == IF p.defined /\ p.tenths # 0 THEN p.tenths ELSE 0

\* routes.ts handler: the values it hands to createMergeJob
NewJobValuesStarted == [status |-> "processing"]
NewJobValues == [status |-> "pending"]

\* routes.ts handler: res.json(job)
SubmitResponseAfterRun(job) == Response(500, "Failed to create merge job", NoJob)
SubmitResponse(job) == Response(200, "", job)

\* routes.ts task: the four patches it writes
ProcessingPatch == [status |-> "processing"]

ProgressPatchWithStatus(progress) == [status |-> "processing", progress |-> Floor(progress)]
ProgressPatch(progress) == [progress |-> Floor(progress)]

CompletedPatchNoStatus(outputFilename) ==
    [progress |-> 100,
     outputFile |-> outputFilename,
     completedAt |-> Now]
CompletedPatch(outputFilename) ==
    [status |-> "completed",
     progress |-> 100,
     outputFile |-> outputFilename,
     completedAt |-> Now]

FailedPatchResetsProgress == [status |-> "failed", progress |-> 0]
FailedPatchOnlyLogs == [progress |-> 0]
FailedPatchWithTime == [status |-> "failed", completedAt |-> Now]
FailedPatch == [status |-> "failed"]

\* routes.ts: files.map(file => `uploads/${file?.filename}`)
ResolvePathsOfFound(fileIds) ==
    LET found == SelectSeq(fileIds, hasAudioFile)
    IN  [i \in 1..Len(found) |-> assets[found[i]].filename]
ResolvePaths(fileIds) ==
    [i \in 1..Len(fileIds) |->
        IF hasAudioFile(fileIds[i]) THEN assets[fileIds[i]].filename ELSE UndefinedName]

\* the orders in which n promises can settle
SettleOrders(n) ==
    {order \in [1..n -> 1..n] : \A a \in 1..n, b \in 1..n : a # b => order[a] # order[b]}

\* Promise.all: whichever promise settles, its value goes to the index the
\* promise has in the argument; the result is there when all have settled
RECURSIVE Settle(_, _, _, _)
Settle(results, values, order, k) ==
    IF k > Len(order) THEN results
    ELSE Settle([results EXCEPT ![order[k]] = values[order[k]]], values, order, k + 1)
PromiseAllAsSettled(values, order) == [k \in 1..Len(values) |-> values[order[k]]]
PromiseAll(values, order) == Settle([i \in 1..Len(values) |-> Null], values, order, 1)

\* audio.ts: the loop over inputFiles with fs.existsSync
FirstInputExists(paths) == Len(paths) = 0 \/ paths[1] \in disk
AllInputsExist(paths) == \A i \in 1..Len(paths) : paths[i] \in disk

\* audio.ts: the path the loop stops at, reject(new Error(`Input file does not exist: ${file}`))
FirstMissing(paths) ==
    paths[CHOOSE i \in 1..Len(paths) :
             paths[i] \notin disk /\ \A k \in 1..(i - 1) : paths[k] \in disk]
MissingInput(paths) == Failure("Input file does not exist", FirstMissing(paths))

\* audio.ts 'error' handler: reject(new Error(`Audio merge failed: ${error.message}`))
MergeFailed(message) == Failure("Audio merge failed", message)

\* the engine's error.message
EngineMessages == {<<"ffmpeg exited with code 1">>, <<"Output stream closed">>}

\* the pieces a filter expression is put together from: the text of a piece
\* with the number the template puts into it
Token(text, index) == [text |-> text, index |-> index]

\* `[${index}:0]`
StreamLabel(index) == Token("[index:0]", index)
\* `silenceremove=stop_periods=-1:stop_duration=5:stop_threshold=-50dB`
SilenceRemove == Token("silenceremove=stop_periods=-1:stop_duration=5:stop_threshold=-50dB", 0)
\* `[clean${index}]`
CleanLabel(index) == Token("[clean index]", index)
Separator == Token(";", 0)
\* `concat=n=${inputFiles.length}:v=0:a=1`
Concat(n) == Token("concat=n=length:v=0:a=1", n)
OutLabel == Token("[out]", 0)

\* Array.prototype.join
RECURSIVE Join(_, _)
Join(parts, separator) ==
    IF Len(parts) = 0 THEN <<>>
    ELSE IF Len(parts) = 1 THEN parts[1]
    ELSE parts[1] \o separator \o Join(Tail(parts), separator)

\* audio.ts: inputFiles.map((_, index) => ...), index counting from 0
SilenceFilters(inputFiles) ==
    [i \in 1..Len(inputFiles) |-> <<StreamLabel(i - 1), SilenceRemove, CleanLabel(i - 1)>>]
CleanLabels(inputFiles) == [i \in 1..Len(inputFiles) |-> <<CleanLabel(i - 1)>>]
StreamLabelsOfFirst(inputFiles) == [i \in 1..Len(inputFiles) |-> <<StreamLabel(0)>>]
StreamLabels(inputFiles) == [i \in 1..Len(inputFiles) |-> <<StreamLabel(i - 1)>>]

\* audio.ts: the filterComplex of the two branches
filterComplexOfNames(inputFiles, removeSilence) ==
    [i \in 1..Len(inputFiles) |-> Token("[name]", inputFiles[i][2])]
        \o <<Concat(Len(inputFiles)), OutLabel>>
filterComplex(inputFiles, removeSilence) ==
    IF removeSilence
    THEN Join(SilenceFilters(inputFiles), <<Separator>>)
             \o <<Separator>>
             \o Join(CleanLabels(inputFiles), <<>>)
             \o <<Concat(Len(inputFiles)), OutLabel>>
    ELSE Join(StreamLabels(inputFiles), <<>>)
             \o <<Concat(Len(inputFiles)), OutLabel>>

\* audio.ts: command.outputOptions(['-map', '[out]'])
MapOption == <<OutLabel>>

\* a string as its characters
AudioPrefix == <<"a", "u", "d", "i", "o", "/">>
MimeAudioMpeg == AudioPrefix \o <<"m", "p", "e", "g">>
MimeVideoMp4 == <<"v", "i", "d", "e", "o", "/", "m", "p", "4">>
MimeAudio == <<"a", "u", "d", "i", "o">>

\* String.prototype.startsWith
StartsWith(str, prefix) ==
    Len(str) >= Len(prefix) /\ SubSeq(str, 1, Len(prefix)) = prefix

\* audio.ts: limits.fileSize
FileSizeLimit == 100 * 1024 * 1024

\* the file parts the upload requests carry
FileInputs ==
    {NoFile, File(MimeAudioMpeg, 1), File(MimeVideoMp4, 1), File(MimeAudio, 1),
     File(MimeAudioMpeg, FileSizeLimit + 1)}

\* routes.ts: !fileIds || !Array.isArray(fileIds) || fileIds.length === 0
InvalidFileIdsNotArrayOnly(fileIds) == ~fileIds.isArray
InvalidFileIdsUnderTwo(fileIds) == ~fileIds.isArray \/ Len(fileIds.ids) < 2
InvalidFileIds(fileIds) == ~fileIds.isArray \/ Len(fileIds.ids) = 0

SetJob(j, patch) == [jobs EXCEPT ![j] = updateMergeJob(jobs[j], patch)]

----------------------------------------------------------------------------
(* Initial state: empty tables, empty uploads directory *)

Init ==
    /\ assets = <<>>
    /\ nextAssetId = 1
    /\ disk = {}
    /\ jobs = <<>>
    /\ jobFiles = <<>>
    /\ task = <<>>
    /\ filePaths = <<>>
    /\ inflight = <<>>
    /\ responses = <<>>
    /\ lastResponse = Response(0, "", NoJob)
    /\ lastRequest = Request("none", NoUser, 0)
    /\ caught = <<>>
    /\ calls = <<>>
    /\ silenceFlags = <<>>
    /\ served = <<>>

----------------------------------------------------------------------------
(* POST /api/mixmerge/upload, behind upload.single('audio') *)

\* multer's verdict on the file part: the fileFilter, then the fileSize limit
MulterErrorNoLimit(file) ==
    IF ~StartsWith(file.mimetype, AudioPrefix) THEN "Only audio files are allowed" ELSE ""
MulterError(file) ==
    IF ~StartsWith(file.mimetype, AudioPrefix) THEN "Only audio files are allowed"
    ELSE IF file.size > FileSizeLimit THEN "File too large"
    ELSE ""

Upload(userId, file, storageOk) ==
    /\ nextAssetId <= MaxAssets
    /\ lastRequest' = UploadRequest(userId, file)
    /\ IF ~file.present
       THEN /\ lastResponse' = Response(400, "No file uploaded", NoJob)
            /\ UNCHANGED <<assets, nextAssetId, disk>>
       ELSE IF MulterError(file) # ""
       THEN \* multer passes its error on: the handler does not run, and a file
            \* cut off at the limit is removed again
            /\ lastResponse' = Response(500, MulterError(file), NoJob)
            /\ UNCHANGED <<assets, nextAssetId, disk>>
       ELSE \* multer has stored the file before the handler runs
            /\ disk' = disk \cup {AudioName(nextAssetId)}
            /\ IF storageOk
               THEN /\ assets' = assets @@ (nextAssetId :>
                          [filename |-> AudioName(nextAssetId),
                           uploadedBy |-> userId,
                           mimeType |-> file.mimetype,
                           size |-> file.size])
                    /\ lastResponse' = Response(200, "", NoJob)
               ELSE /\ assets' = assets
                    /\ lastResponse' = Response(500, "Failed to upload audio file", NoJob)
            /\ nextAssetId' = nextAssetId + 1
    /\ UNCHANGED <<jobs, jobFiles, task, filePaths, inflight, responses, caught, calls,
                   silenceFlags, served>>

(* DELETE /api/mixmerge/files/:id *)

DeleteFileUnlinkThrows(userId, id, storageOk, unlinkOk) ==
    /\ lastRequest' = Request("delete", userId, id)
    /\ IF ~storageOk
       THEN /\ lastResponse' = Response(500, "Failed to delete audio file", NoJob)
            /\ UNCHANGED <<assets, disk>>
       ELSE IF ~hasAudioFile(id)
       THEN /\ lastResponse' = Response(404, "File not found", NoJob)
            /\ UNCHANGED <<assets, disk>>
       ELSE IF ~deleteAudioFile(id, userId)
       THEN /\ lastResponse' = Response(403, "Access denied", NoJob)
            /\ UNCHANGED <<assets, disk>>
       ELSE /\ assets' = [i \in DOMAIN assets \ {id} |-> assets[i]]
            /\ disk' = IF unlinkOk THEN disk \ {assets[id].filename} ELSE disk
            /\ lastResponse' = IF unlinkOk
                               THEN Response(200, "File deleted successfully", NoJob)
                               ELSE Response(500, "Failed to delete audio file", NoJob)
    /\ UNCHANGED <<nextAssetId, jobs, jobFiles, task, filePaths, inflight, responses,
                   caught, calls, silenceFlags, served>>
DeleteFileUnlessReferenced(userId, id, storageOk, unlinkOk) ==
    /\ lastRequest' = Request("delete", userId, id)
    /\ IF ~storageOk
       THEN /\ lastResponse' = Response(500, "Failed to delete audio file", NoJob)
            /\ UNCHANGED <<assets, disk>>
       ELSE IF ~hasAudioFile(id)
       THEN /\ lastResponse' = Response(404, "File not found", NoJob)
            /\ UNCHANGED <<assets, disk>>
       ELSE IF ~deleteAudioFile(id, userId)
       THEN /\ lastResponse' = Response(403, "Access denied", NoJob)
            /\ UNCHANGED <<assets, disk>>
       ELSE IF \E j \in 1..Len(jobs) :
                   /\ jobs[j].status \in {"pending", "processing"}
                   /\ \E i \in DOMAIN jobFiles[j] : jobFiles[j][i] = id
       THEN /\ lastResponse' = Response(409, "File is in use", NoJob)
            /\ UNCHANGED <<assets, disk>>
       ELSE /\ assets' = [i \in DOMAIN assets \ {id} |-> assets[i]]
            /\ disk' = IF unlinkOk THEN disk \ {assets[id].filename} ELSE disk
            /\ lastResponse' = Response(200, "File deleted successfully", NoJob)
    /\ UNCHANGED <<nextAssetId, jobs, jobFiles, task, filePaths, inflight, responses,
                   caught, calls, silenceFlags, served>>
DeleteFile(userId, id, storageOk, unlinkOk) ==
    /\ lastRequest' = Request("delete", userId, id)
    /\ IF ~storageOk
       THEN \* a storage call threw: the handler's catch block answers
            /\ lastResponse' = Response(500, "Failed to delete audio file", NoJob)
            /\ UNCHANGED <<assets, disk>>
       ELSE IF ~hasAudioFile(id)
       THEN /\ lastResponse' = Response(404, "File not found", NoJob)
            /\ UNCHANGED <<assets, disk>>
       ELSE IF ~deleteAudioFile(id, userId)
       THEN /\ lastResponse' = Response(403, "Access denied", NoJob)
            /\ UNCHANGED <<assets, disk>>
       ELSE /\ assets' = [i \in DOMAIN assets \ {id} |-> assets[i]]
            \* deleteFile: unlinkSync, its error is caught and logged
            /\ disk' = IF unlinkOk THEN disk \ {assets[id].filename} ELSE disk
            /\ lastResponse' = Response(200, "File deleted successfully", NoJob)
    /\ UNCHANGED <<nextAssetId, jobs, jobFiles, task, filePaths, inflight, responses,
                   caught, calls, silenceFlags, served>>

----------------------------------------------------------------------------
(* POST /api/mixmerge/merge: the request handler *)

AppendJobRow(job, ids, removeSilence, pc, response) ==
    /\ jobs' = Append(jobs, job)
    /\ jobFiles' = Append(jobFiles, ids)
    /\ silenceFlags' = Append(silenceFlags, removeSilence)
    /\ task' = Append(task, pc)
    /\ filePaths' = Append(filePaths, <<>>)
    /\ inflight' = Append(inflight, EmptyBag)
    /\ caught' = Append(caught, NoError)
    /\ responses' = Append(responses, response)
    /\ lastResponse' = response

SubmitMerge(fileIds, removeSilence, createOk, linkOk) ==
    /\ Len(jobs) < MaxJobs
    /\ lastRequest' = MergeRequest(fileIds, removeSilence)
    /\ IF InvalidFileIds(fileIds)
       THEN /\ lastResponse' = Response(400, "File IDs are required", NoJob)
            /\ UNCHANGED <<jobs, jobFiles, task, filePaths, inflight, responses, caught,
                           silenceFlags>>
       ELSE IF ~createOk
       THEN /\ lastResponse' = Response(500, "Failed to create merge job", NoJob)
            /\ UNCHANGED <<jobs, jobFiles, task, filePaths, inflight, responses, caught,
                           silenceFlags>>
       ELSE LET job == createMergeJob(Len(jobs) + 1, NewJobValues)
            IN  IF ~linkOk
                THEN \* addJobFiles threw: the row stays, setImmediate is never reached
                     AppendJobRow(job, <<>>, removeSilence, "none",
                                  Response(500, "Failed to create merge job", NoJob))
                ELSE \* setImmediate(...); res.json(job)
                     AppendJobRow(job, fileIds.ids, removeSilence, "scheduled",
                                  SubmitResponse(job))
    /\ UNCHANGED <<assets, nextAssetId, disk, calls, served>>

----------------------------------------------------------------------------
(* POST /api/mixmerge/merge: the setImmediate task of job j *)

JobIds == 1..Len(jobs)

(* GET /api/mixmerge/jobs/:id *)

\* select from merge_jobs where id = ...: the row, or undefined
getMergeJob(id) == IF id \in JobIds THEN jobs[id] ELSE NoJob

\* the handler writes nothing: its answer is a function of the rows
GetJob(id) ==
    IF id \in JobIds
    THEN Response(200, "", getMergeJob(id))
    ELSE Response(404, "Job not found", NoJob)

TaskFrame ==
    UNCHANGED <<assets, nextAssetId, jobFiles, responses, lastResponse, lastRequest, calls,
                silenceFlags, served>>

\* a promise the task awaits rejects with e: control goes to the catch block
Throw(j, e) ==
    /\ task' = [task EXCEPT ![j] = "failing"]
    /\ caught' = [caught EXCEPT ![j] = e]

\* the task starts: await storage.updateMergeJob(job.id, {status: "processing"})
TaskStart(j, writeOk) ==
    /\ task[j] = "scheduled"
    /\ IF writeOk
       THEN /\ jobs' = SetJob(j, ProcessingPatch)
            /\ task' = [task EXCEPT ![j] = "resolving"]
            /\ caught' = caught
       ELSE /\ jobs' = jobs
            /\ Throw(j, StorageError)
    /\ UNCHANGED <<disk, filePaths, inflight>>
    /\ TaskFrame

\* await Promise.all(fileIds.map(id => storage.getAudioFile(id))); filePaths = ...
\* the lookups run together and settle in any order
TaskResolve(j, readOk) ==
    /\ task[j] = "resolving"
    /\ IF readOk
       THEN /\ \E order \in SettleOrders(Len(jobFiles[j])) :
                   filePaths' = [filePaths EXCEPT
                                    ![j] = PromiseAll(ResolvePaths(jobFiles[j]), order)]
            /\ task' = [task EXCEPT ![j] = "resolved"]
            /\ caught' = caught
       ELSE /\ filePaths' = filePaths
            /\ Throw(j, StorageError)
    /\ UNCHANGED <<disk, jobs, inflight>>
    /\ TaskFrame

\* mergeAudioFiles is called: the existence check, then command.run()
TaskMergeWhenIdle(j) ==
    /\ task[j] = "resolved"
    /\ \A k \in JobIds : task[k] # "merging"
    /\ IF AllInputsExist(filePaths[j])
       THEN /\ task' = [task EXCEPT ![j] = "merging"]
            /\ caught' = caught
       ELSE Throw(j, MissingInput(filePaths[j]))
    /\ UNCHANGED <<disk, jobs, filePaths, inflight>>
    /\ TaskFrame
TaskMerge(j) ==
    /\ task[j] = "resolved"
    /\ IF AllInputsExist(filePaths[j])
       THEN /\ task' = [task EXCEPT ![j] = "merging"]
            /\ caught' = caught
       ELSE Throw(j, MissingInput(filePaths[j]))
    /\ UNCHANGED <<disk, jobs, filePaths, inflight>>
    /\ TaskFrame

\* the engine emits 'progress': onProgress(progress.percent || 0) issues a
\* storage write that nobody awaits
EngineProgress(j, p) ==
    /\ task[j] = "merging"
    /\ BagCardinality(inflight[j]) < MaxInFlight
    /\ inflight' = [inflight EXCEPT ![j] = @ (+) SetToBag({ProgressPatch(PercentOrZero(p))})]
    /\ UNCHANGED <<disk, jobs, task, filePaths, caught>>
    /\ TaskFrame

\* the database applies one of the issued progress writes
ProgressWrite(j, patch) ==
    /\ BagIn(patch, inflight[j])
    /\ inflight' = [inflight EXCEPT ![j] = @ (-) SetToBag({patch})]
    /\ jobs' = SetJob(j, patch)
    /\ UNCHANGED <<disk, task, filePaths, caught>>
    /\ TaskFrame

\* the engine emits 'end': resolve(); the task goes on to the completion write
EngineEnd(j) ==
    /\ task[j] = "merging"
    /\ disk' = disk \cup {MergedName(j)}
    /\ task' = [task EXCEPT ![j] = "completing"]
    /\ UNCHANGED <<jobs, filePaths, inflight, caught>>
    /\ TaskFrame

\* the engine emits 'error': reject(new Error(`Audio merge failed: ...`));
\* what it wrote of the output so far stays where it is
EngineError(j, message, partial) ==
    /\ task[j] = "merging"
    /\ disk' = IF partial THEN disk \cup {MergedName(j)} ELSE disk
    /\ Throw(j, MergeFailed(message))
    /\ UNCHANGED <<jobs, filePaths, inflight>>
    /\ TaskFrame

\* await storage.updateMergeJob(job.id, {status: "completed", progress: 100, ...})
TaskComplete(j, writeOk) ==
    /\ task[j] = "completing"
    /\ IF writeOk
       THEN /\ jobs' = SetJob(j, CompletedPatch(MergedName(j)))
            /\ task' = [task EXCEPT ![j] = "done"]
            /\ caught' = caught
       ELSE /\ jobs' = jobs
            /\ Throw(j, StorageError)
    /\ UNCHANGED <<disk, filePaths, inflight>>
    /\ TaskFrame

\* catch (error): console.error, then
\* await storage.updateMergeJob(job.id, {status: "failed"})
TaskFailCleansUp(j, writeOk) ==
    /\ task[j] = "failing"
    /\ jobs' = IF writeOk THEN SetJob(j, FailedPatch) ELSE jobs
    /\ task' = [task EXCEPT ![j] = "done"]
    /\ caught' = [caught EXCEPT ![j] = NoError]
    /\ disk' = disk \ {MergedName(j)}
    /\ UNCHANGED <<filePaths, inflight>>
    /\ TaskFrame
TaskFail(j, writeOk) ==
    /\ task[j] = "failing"
    /\ jobs' = IF writeOk THEN SetJob(j, FailedPatch) ELSE jobs
    /\ task' = [task EXCEPT ![j] = "done"]
    /\ caught' = [caught EXCEPT ![j] = NoError]
    /\ UNCHANGED <<disk, filePaths, inflight>>
    /\ TaskFrame

----------------------------------------------------------------------------

Next ==
    \/ \E u \in Users, f \in FileInputs, ok \in BOOLEAN : Upload(u, f, ok)
    \/ \E u \in Users, id \in DeleteIdInputs, s \in BOOLEAN, ok \in BOOLEAN :
           \* unlinkSync is not reached when a storage call threw
           (s \/ ok) /\ DeleteFile(u, id, s, ok)
    \/ \E f \in FileIdsInputs, r \in SilenceInputs, c \in BOOLEAN, l \in BOOLEAN :
           SubmitMerge(f, r, c, l)
    \/ \E j \in JobIds, ok \in BOOLEAN : TaskStart(j, ok)
    \/ \E j \in JobIds, ok \in BOOLEAN : TaskResolve(j, ok)
    \/ \E j \in JobIds : TaskMerge(j)
    \/ \E j \in JobIds, p \in PercentInputs : EngineProgress(j, p)
    \/ \E j \in JobIds : \E patch \in BagToSet(inflight[j]) : ProgressWrite(j, patch)
    \/ \E j \in JobIds : EngineEnd(j)
    \/ \E j \in JobIds, m \in EngineMessages, partial \in BOOLEAN : EngineError(j, m, partial)
    \/ \E j \in JobIds, ok \in BOOLEAN : TaskComplete(j, ok)
    \/ \E j \in JobIds, ok \in BOOLEAN : TaskFail(j, ok)

Spec == Init /\ [][Next]_vars

----------------------------------------------------------------------------
(* The same routes while every storage call succeeds and the file requests are
   the ones that change the tables (uploads of audio files, deletes by the
   uploader), with the scheduling the runtime gives: a setImmediate callback
   runs, an awaited promise settles and its continuation runs, and the engine
   emits 'end' or 'error'. *)

TaskStep(j) ==
    /\ j \in JobIds
    /\ \/ TaskStart(j, TRUE)
       \/ TaskResolve(j, TRUE)
       \/ TaskMerge(j)
       \/ EngineEnd(j)
       \/ \E m \in EngineMessages, partial \in BOOLEAN : EngineError(j, m, partial)
       \/ TaskComplete(j, TRUE)
       \/ TaskFail(j, TRUE)

NextLive ==
    \/ \E u \in Users : Upload(u, File(MimeAudioMpeg, 1), TRUE)
    \/ \E id \in DOMAIN assets, ok \in BOOLEAN : DeleteFile(assets[id].uploadedBy, id, TRUE, ok)
    \/ \E f \in FileIdsInputs, r \in SilenceInputs : SubmitMerge(f, r, TRUE, TRUE)
    \/ \E j \in JobIds, p \in PercentInputs : EngineProgress(j, p)
    \/ \E j \in JobIds : \E patch \in BagToSet(inflight[j]) : ProgressWrite(j, patch)
    \/ \E j \in 1..MaxJobs : TaskStep(j)

LiveSpec ==
    /\ Init
    /\ [][NextLive]_vars
    /\ \A j \in 1..MaxJobs : WF_vars(TaskStep(j))

----------------------------------------------------------------------------
(* mergeAudioFiles of server/audio.ts called on its own: a history of calls
   against an uploads directory that holds some of the named files *)

InputNames == {AudioName(1), AudioName(2)}
InputFilesInputs == SeqsUpTo(InputNames, MaxInputs)

\* the call when its synchronous part has run: the existence loop, and, if it
\* passed, the command with its inputs, its filter and its map option, spawned
\* by run()
Call(inputFiles, removeSilence) ==
    IF AllInputsExist(inputFiles)
    THEN [inputFiles |-> inputFiles,
          removeSilence |-> removeSilence,
          inputs |-> inputFiles,
          filter |-> filterComplex(inputFiles, removeSilence),
          map |-> MapOption,
          spawned |-> TRUE,
          progress |-> 0,
          settled |-> "pending",
          error |-> NoError]
    ELSE [inputFiles |-> inputFiles,
          removeSilence |-> removeSilence,
          inputs |-> <<>>,
          filter |-> <<>>,
          map |-> <<>>,
          spawned |-> FALSE,
          progress |-> 0,
          settled |-> "rejected",
          error |-> MissingInput(inputFiles)]

CallFrame ==
    UNCHANGED <<assets, nextAssetId, disk, jobs, jobFiles, task, filePaths, inflight,
                responses, lastResponse, lastRequest, caught, silenceFlags, served>>

MergeCall(inputFiles, removeSilence) ==
    /\ Len(calls) < MaxCalls
    /\ calls' = Append(calls, Call(inputFiles, removeSilence))
    /\ CallFrame

\* the spawned engine emits 'progress': onProgress is called
CallProgress(c) ==
    /\ calls[c].spawned
    /\ calls[c].settled = "pending"
    /\ calls[c].progress < MaxEvents
    /\ calls' = [calls EXCEPT ![c].progress = @ + 1]
    /\ CallFrame

\* the spawned engine emits 'end': resolve()
CallEnd(c) ==
    /\ calls[c].spawned
    /\ calls[c].settled = "pending"
    /\ calls' = [calls EXCEPT ![c].settled = "resolved"]
    /\ CallFrame

\* the spawned engine emits 'error': reject(new Error(`Audio merge failed: ...`))
CallError(c, message) ==
    /\ calls[c].spawned
    /\ calls[c].settled = "pending"
    /\ calls' = [calls EXCEPT ![c].settled = "rejected", ![c].error = MergeFailed(message)]
    /\ CallFrame

MergeCallInit ==
    /\ assets = <<>>
    /\ nextAssetId = 1
    /\ disk \in SUBSET InputNames
    /\ jobs = <<>>
    /\ jobFiles = <<>>
    /\ task = <<>>
    /\ filePaths = <<>>
    /\ inflight = <<>>
    /\ responses = <<>>
    /\ lastResponse = Response(0, "", NoJob)
    /\ lastRequest = Request("none", NoUser, 0)
    /\ caught = <<>>
    /\ calls = <<>>
    /\ silenceFlags = <<>>
    /\ served = <<>>

MergeCallNext ==
    \/ \E f \in InputFilesInputs, r \in BOOLEAN : MergeCall(f, r)
    \/ \E c \in DOMAIN calls : CallProgress(c)
    \/ \E c \in DOMAIN calls : CallEnd(c)
    \/ \E c \in DOMAIN calls, m \in EngineMessages : CallError(c, m)

MergeCallSpec == MergeCallInit /\ [][MergeCallNext]_vars

----------------------------------------------------------------------------
(* The merge route and its tasks on two stored assets, with longer id lists
   and both values of removeSilence, every storage call succeeding: what the
   engine of each job is given *)

StoredAsset(id) ==
    [filename |-> AudioName(id), uploadedBy |-> "alice", mimeType |-> MimeAudioMpeg, size |-> 1]
StoredAssets == [id \in {1, 2} |-> StoredAsset(id)]

ListedIdsInputs ==
    {[isArray |-> TRUE, ids |-> ids] : ids \in SeqsUpTo(DOMAIN StoredAssets, MaxListed) \ {<<>>}}

\* the command mergeAudioFiles builds from what the task of job j hands it
EngineCall(j) == Call(filePaths[j], silenceFlags[j])

EngineInit ==
    /\ assets = StoredAssets
    /\ nextAssetId = 3
    /\ disk = {StoredAssets[id].filename : id \in DOMAIN StoredAssets}
    /\ jobs = <<>>
    /\ jobFiles = <<>>
    /\ task = <<>>
    /\ filePaths = <<>>
    /\ inflight = <<>>
    /\ responses = <<>>
    /\ lastResponse = Response(200, "", NoJob)
    /\ lastRequest = UploadRequest("alice", File(MimeAudioMpeg, 1))
    /\ caught = <<>>
    /\ calls = <<>>
    /\ silenceFlags = <<>>
    /\ served = <<>>

EngineNext ==
    \/ \E f \in ListedIdsInputs, r \in BOOLEAN : SubmitMerge(f, r, TRUE, TRUE)
    \/ \E j \in JobIds : TaskStart(j, TRUE)
    \/ \E j \in JobIds : TaskResolve(j, TRUE)
    \/ \E j \in JobIds : TaskMerge(j)
    \/ \E j \in JobIds : EngineEnd(j)
    \/ \E j \in JobIds : TaskComplete(j, TRUE)

EngineSpec == EngineInit /\ [][EngineNext]_vars

----------------------------------------------------------------------------
(* GET /uploads/:filename, with the uploads and deletes that fill and empty
   the uploads directory *)

\* a path is the sequence of its segments; a stored file's name is one segment
UploadsDir == <<"uploads">>
ParentDir == <<"..">>
PackageJson == <<"package.json">>
Missing == <<"missing">>

\* the files of the working directory that are not in uploads/, as resolved paths
WorkingDirFiles == {<<PackageJson>>}

\* req.params.filename after the router has decoded it: one path segment of
\* the URL, in which an encoded slash (%2F) has become a slash
FilenameInputs ==
    {<<AudioName(1)>>, <<Missing>>, <<ParentDir, PackageJson>>, <<ParentDir, Missing>>}

\* path.resolve, relative to the working directory: ".." leaves the directory
\* the path has reached
RECURSIVE Resolve(_)
Resolve(path) ==
    IF Len(path) = 0 THEN <<>>
    ELSE LET front == Resolve(SubSeq(path, 1, Len(path) - 1))
             last == path[Len(path)]
         IN  IF last = ParentDir
             THEN IF Len(front) = 0 THEN <<>> ELSE SubSeq(front, 1, Len(front) - 1)
             ELSE Append(front, last)

\* fs.existsSync
ExistsSync(path) ==
    LET resolved == Resolve(path)
    IN  \/ resolved \in WorkingDirFiles
        \/ /\ Len(resolved) = 2
           /\ resolved[1] = UploadsDir
           /\ resolved[2] \in disk

\* what the handler answers: res.sendFile(path.resolve(filePath)), or 404
SendFile(path) == [code |-> 200, sent |-> path]
FileNotFound == [code |-> 404, sent |-> <<>>]

\* const filePath = `uploads/${filename}`
ServeAnswer(filename) ==
    LET filePath == <<UploadsDir>> \o filename
    IN  IF ExistsSync(filePath) THEN SendFile(Resolve(filePath)) ELSE FileNotFound

ServeFile(filename) ==
    /\ Len(served) < MaxServed
    /\ served' = Append(served, [filename |-> filename, answer |-> ServeAnswer(filename)])
    /\ UNCHANGED <<assets, nextAssetId, disk, jobs, jobFiles, task, filePaths, inflight,
                   responses, lastResponse, lastRequest, caught, calls, silenceFlags>>

StaticNext ==
    \/ \E u \in Users, f \in FileInputs, ok \in BOOLEAN : Upload(u, f, ok)
    \/ \E u \in Users, id \in DeleteIdInputs, ok \in BOOLEAN : DeleteFile(u, id, TRUE, ok)
    \/ \E f \in FilenameInputs : ServeFile(f)

StaticSpec == Init /\ [][StaticNext]_vars

----------------------------------------------------------------------------
(* Properties of the merge job *)

Terminal == {"completed", "failed"}

AllowedTransitions ==
    {<<"pending", "processing">>, <<"processing", "completed">>,
     <<"processing", "failed">>, <<"pending", "failed">>}

\* C1: a job's status only moves pending -> processing -> completed/failed, or
\* pending -> failed; no step changes the status of a completed or failed job.
C1_StatusTransitions ==
    [][\A j \in JobIds :
          jobs'[j].status # jobs[j].status
              => <<jobs[j].status, jobs'[j].status>> \in AllowedTransitions]_vars

\* a progress write was applied to a job that is already completed
C1_Witness ==
    \E j \in JobIds :
        /\ jobs[j].status = "completed"
        /\ jobs[j].progress # 100
        /\ inflight[j] = EmptyBag

\* C2: the request that got a task scheduled has been answered with the new job,
\* status pending, in every state from the one where the task is merely
\* scheduled on: the response never shows a later status.
C2_SubmitAnswersPending ==
    \A j \in JobIds :
        task[j] # "none" =>
            /\ responses[j].code = 200
            /\ responses[j].job.id = j
            /\ responses[j].job.status = "pending"
            /\ responses[j].job.progress = 0
            /\ responses[j].job.outputFile = Null

\* the response is there while the task has not started, and stays as it was
\* after the task completed the job
C2_Witness ==
    /\ \E j \in JobIds : task[j] = "scheduled" /\ responses[j].job.status = "pending"
    /\ \E j \in JobIds : jobs[j].status = "completed" /\ responses[j].job.status = "pending"

\* C3: a job naming an asset id that no stored asset has is never processing.
C3_MissingAssetNeverProcessing ==
    \A j \in JobIds :
        (\E i \in 1..Len(jobFiles[j]) : jobFiles[j][i] >= nextAssetId)
            => jobs[j].status # "processing"

\* C4: the persisted progress of a job never decreases in a step.
C4_ProgressNeverDecreases ==
    [][\A j \in JobIds : jobs'[j].progress >= jobs[j].progress]_vars

\* C5: the persisted progress of every job is within 0..100.
C5_ProgressInRange ==
    \A j \in JobIds : jobs[j].progress \in 0..100

\* C6: the output file reference of a job is set exactly when the job is completed.
C6_OutputIffCompleted ==
    \A j \in JobIds : (jobs[j].outputFile # Null) <=> (jobs[j].status = "completed")

\* one job completed with its output, another failed after its engine left a
\* partial output on disk
C6_Witness ==
    /\ \E j \in JobIds : jobs[j].status = "completed" /\ jobs[j].outputFile = MergedName(j)
    /\ \E j \in JobIds : jobs[j].status = "failed" /\ MergedName(j) \in disk

\* C7: a completed job has progress exactly 100.
C7_CompletedHasFullProgress ==
    \A j \in JobIds : jobs[j].status = "completed" => jobs[j].progress = 100

\* C8: the step that makes a job failed changes only its status: progress keeps
\* its value, and output file and completion time stay unset.
C8_FailureWriteFrame ==
    [][\A j \in JobIds :
          (jobs[j].status # "failed" /\ jobs'[j].status = "failed") =>
              /\ jobs'[j].progress = jobs[j].progress
              /\ jobs'[j].outputFile = Null /\ jobs[j].outputFile = Null
              /\ jobs'[j].completedAt = Null /\ jobs[j].completedAt = Null]_vars

\* a job failed after a progress value was persisted, and kept that value
C8_Witness ==
    \E j \in JobIds :
        /\ jobs[j].status = "failed"
        /\ jobs[j].progress = 120
        /\ task[j] = "done"

\* C9: a failure of the task is never in the response: the request of every job
\* that has a task was answered 200 with the pending job, and an error response
\* belongs only to a row whose task never existed.
C9_FailureOnlyInStatus ==
    \A j \in JobIds :
        /\ jobs[j].status = "failed" =>
              responses[j] = Response(200, "", createMergeJob(j, [status |-> "pending"]))
        /\ responses[j].code # 200 => (task[j] = "none" /\ jobs[j].status = "pending")

\* a job whose task failed on a missing input, answered long before with 200
C9_Witness ==
    \E j \in JobIds :
        /\ jobs[j].status = "failed"
        /\ task[j] = "done"
        /\ ~AllInputsExist(filePaths[j])
        /\ responses[j].code = 200

\* C10: every job row has a task scheduled for it.
C10_EveryJobHasTask ==
    \A j \in JobIds : task[j] # "none"

\* the writes to job j that are issued and not yet applied: the progress writes
\* nobody awaits, and the completion or failure write the task is awaiting
WritesInFlight(j) ==
    BagCardinality(inflight[j]) + (IF task[j] \in {"completing", "failing"} THEN 1 ELSE 0)

\* C11: no job ever has two writes in flight at the same time.
C11_SingleWriter ==
    \A j \in JobIds : WritesInFlight(j) <= 1

\* C12: while storage calls succeed and the engine ends or errors, every job
\* that exists reaches completed or failed.
C12_EveryJobTerminates ==
    \A j \in 1..MaxJobs :
        (j \in JobIds) ~> (j \in JobIds /\ jobs[j].status \in Terminal)

\* a job whose engine ran ended completed, another ended failed
C12_Witness ==
    /\ \E j \in JobIds : jobs[j].status = "completed" /\ task[j] = "done"
    /\ \E j \in JobIds : jobs[j].status = "failed" /\ task[j] = "done"

\* C14: the merge of a job settles once: it leaves the running engine either
\* resolved, which only the engine's 'end' with the output written does, or
\* rejected with "Audio merge failed" carrying the engine's message; once
\* settled it never runs again, and no step removes the output path of a job,
\* so what a failed engine wrote stays on disk.
C14_MergeSettlesOnce ==
    [][\A j \in JobIds :
          /\ (task[j] = "merging" /\ task'[j] # "merging") =>
                \/ /\ task'[j] = "completing"
                   /\ caught'[j] = NoError
                   /\ MergedName(j) \in disk'
                \/ /\ task'[j] = "failing"
                   /\ caught'[j].kind = "Audio merge failed"
                   /\ caught'[j].detail \in EngineMessages
          /\ (task[j] # "completing" /\ task'[j] = "completing") => task[j] = "merging"
          /\ task[j] \in {"completing", "failing", "done"} => task'[j] # "merging"
          /\ MergedName(j) \in disk => MergedName(j) \in disk']_vars

\* the catch block of one job is done and the partial output is still there,
\* while another job's merge has just been rejected with the engine's message
C14_Witness ==
    /\ \E j \in JobIds :
           /\ task[j] = "done"
           /\ jobs[j].status = "failed"
           /\ jobs[j].outputFile = Null
           /\ MergedName(j) \in disk
    /\ \E j \in JobIds :
           /\ task[j] = "failing"
           /\ caught[j] = MergeFailed(<<"Output stream closed">>)

----------------------------------------------------------------------------
(* Properties of mergeAudioFiles *)

Range(s) == {s[i] : i \in DOMAIN s}

\* C13: a call with a missing input path is rejected with the error that names
\* a path of the call that is not on disk, its engine is not spawned, it has no
\* command input and no progress callback; a spawned call has every path as
\* an input, in order.
C13_MissingInputRejected ==
    \A c \in DOMAIN calls :
        IF \E i \in DOMAIN calls[c].inputFiles : calls[c].inputFiles[i] \notin disk
        THEN /\ calls[c].settled = "rejected"
             /\ calls[c].error.kind = "Input file does not exist"
             /\ calls[c].error.detail \in Range(calls[c].inputFiles) \ disk
             /\ ~calls[c].spawned
             /\ calls[c].inputs = <<>>
             /\ calls[c].filter = <<>>
             /\ calls[c].progress = 0
        ELSE /\ calls[c].spawned
             /\ calls[c].inputs = calls[c].inputFiles

\* a call whose first path exists and whose second does not was rejected, and
\* another call ran its engine and reported progress
C13_Witness ==
    /\ \E c \in DOMAIN calls :
           /\ Len(calls[c].inputFiles) >= 2
           /\ calls[c].inputFiles[1] \in disk
           /\ calls[c].inputFiles[2] \notin disk
           /\ calls[c].settled = "rejected"
    /\ \E c \in DOMAIN calls : calls[c].spawned /\ calls[c].progress > 0

\* how often a piece occurs in a filter expression, and how often its text
Count(filter, token) == Cardinality({p \in DOMAIN filter : filter[p] = token})
CountText(filter, token) == Cardinality({p \in DOMAIN filter : filter[p].text = token.text})

\* C15: the filter expression of a spawned call with N >= 2 inputs has each
\* stream label [0:0]..[N-1:0] once and no other, one concat with n = N, v = 0,
\* a = 1 whose output is the only [out], and the map option is [out]; without
\* removeSilence the stream labels are the concat's inputs and there is no
\* silenceremove; with it there are N silenceremove filters, the one of input i
\* reading [i:0] and writing [clean i], and [clean 0]..[clean N-1] are the
\* concat's inputs.
C15_FilterStructure ==
    \A c \in DOMAIN calls :
        (calls[c].spawned /\ Len(calls[c].inputFiles) >= 2) =>
            LET n == Len(calls[c].inputFiles)
                f == calls[c].filter
                concatInputs == SubSeq(f, Len(f) - 1 - n, Len(f) - 2)
            IN  /\ \A i \in 0..(n - 1) : Count(f, StreamLabel(i)) = 1
                /\ CountText(f, StreamLabel(0)) = n
                /\ Count(f, Concat(n)) = 1
                /\ CountText(f, Concat(n)) = 1
                /\ CountText(f, OutLabel) = 1
                /\ f[Len(f) - 1] = Concat(n)
                /\ f[Len(f)] = OutLabel
                /\ calls[c].map = <<OutLabel>>
                /\ IF calls[c].removeSilence
                   THEN /\ CountText(f, SilenceRemove) = n
                        /\ \A i \in 0..(n - 1) :
                               /\ Count(f, CleanLabel(i)) = 2
                               /\ \E p \in DOMAIN f :
                                      /\ p + 2 <= Len(f)
                                      /\ f[p] = StreamLabel(i)
                                      /\ f[p + 1] = SilenceRemove
                                      /\ f[p + 2] = CleanLabel(i)
                        /\ concatInputs = [i \in 1..n |-> CleanLabel(i - 1)]
                   ELSE /\ CountText(f, SilenceRemove) = 0
                        /\ CountText(f, CleanLabel(0)) = 0
                        /\ concatInputs = [i \in 1..n |-> StreamLabel(i - 1)]

\* a call with three inputs and silence removal and a call with two inputs
\* and none have both built their command
C15_Witness ==
    /\ \E c \in DOMAIN calls :
           calls[c].spawned /\ Len(calls[c].inputFiles) = MaxInputs /\ calls[c].removeSilence
    /\ \E c \in DOMAIN calls :
           calls[c].spawned /\ Len(calls[c].inputFiles) = 2 /\ ~calls[c].removeSilence

\* C16: two spawned calls with the same number of inputs and the same
\* removeSilence flag have built the same filter expression, whatever their
\* file names are and whichever of them was made first.
C16_FilterDependsOnCountAndFlag ==
    \A c \in DOMAIN calls, d \in DOMAIN calls :
        (/\ calls[c].spawned
         /\ calls[d].spawned
         /\ Len(calls[c].inputFiles) = Len(calls[d].inputFiles)
         /\ calls[c].removeSilence = calls[d].removeSilence)
            => calls[c].filter = calls[d].filter

\* two calls of the same length and flag on different files, the earlier one
\* already settled, carry the same expression
C16_Witness ==
    \E c \in DOMAIN calls, d \in DOMAIN calls :
        /\ c < d
        /\ calls[c].spawned /\ calls[c].settled = "resolved"
        /\ calls[d].spawned
        /\ Len(calls[c].inputFiles) = 2
        /\ Len(calls[d].inputFiles) = 2
        /\ calls[c].inputFiles # calls[d].inputFiles
        /\ calls[c].removeSilence /\ calls[d].removeSilence
        /\ calls[c].filter = calls[d].filter

----------------------------------------------------------------------------
(* Properties of the asset routes *)

\* a step taken by the handler of a route: it leaves the request it served in
\* lastRequest, and, unlike every step of a task, touches neither task nor
\* inflight
HandlerStep(route) ==
    /\ lastRequest'.route = route
    /\ UNCHANGED <<task, inflight>>
    /\ vars' # vars

\* what the handler of a route answers when a storage call throws
StorageFailed(message) == Response(500, message, NoJob)

\* C17: an asset record is only ever removed by a delete request of its
\* uploader, answered 200; a delete request of another user for a stored asset
\* changes neither the records nor the disk, and is answered 403 "Access
\* denied" (500 if the storage call itself threw).
C17_DeleteOnlyByUploader ==
    [][/\ \A id \in DOMAIN assets \ DOMAIN assets' :
              /\ lastRequest' = Request("delete", assets[id].uploadedBy, id)
              /\ lastResponse'.code = 200
       /\ (/\ HandlerStep("delete")
           /\ hasAudioFile(lastRequest'.id)
           /\ assets[lastRequest'.id].uploadedBy # lastRequest'.userId)
              => /\ lastResponse' \in {Response(403, "Access denied", NoJob),
                                      StorageFailed("Failed to delete audio file")}
                 /\ assets' = assets
                 /\ disk' = disk]_vars

\* another user's delete request has been refused; record and file are there
C17_Witness ==
    /\ lastRequest.route = "delete"
    /\ lastResponse.code = 403
    /\ hasAudioFile(lastRequest.id)
    /\ assets[lastRequest.id].uploadedBy # lastRequest.userId
    /\ assets[lastRequest.id].filename \in disk

\* C18: a delete request for the id whose delete has just succeeded is not
\* answered with an error, and changes neither the records nor the disk.
C18_SecondDeleteNoError ==
    [][(/\ lastRequest.route = "delete"
        /\ lastResponse.code = 200
        /\ HandlerStep("delete")
        /\ lastRequest'.id = lastRequest.id)
           => /\ lastResponse'.code < 400
              /\ assets' = assets
              /\ disk' = disk]_vars

\* C19: a delete request of the uploader for a stored asset is answered 200
\* and the record is gone after it, whether or not the file could be removed;
\* the only other answer is the 500 of a storage call that threw, and then
\* record and file are as before.
C19_UnlinkFailureSwallowed ==
    [][(/\ HandlerStep("delete")
        /\ hasAudioFile(lastRequest'.id)
        /\ assets[lastRequest'.id].uploadedBy = lastRequest'.userId)
           => \/ /\ lastResponse' = Response(200, "File deleted successfully", NoJob)
                 /\ lastRequest'.id \notin DOMAIN assets'
                 /\ disk' \in {disk, disk \ {assets[lastRequest'.id].filename}}
              \/ /\ lastResponse' = StorageFailed("Failed to delete audio file")
                 /\ assets' = assets
                 /\ disk' = disk]_vars

\* the delete was answered 200, the record is gone and the file is still there
C19_Witness ==
    /\ lastRequest.route = "delete"
    /\ lastResponse = Response(200, "File deleted successfully", NoJob)
    /\ ~hasAudioFile(lastRequest.id)
    /\ AudioName(lastRequest.id) \in disk

\* C20: an upload request whose file has a MIME type that does not start with
\* audio/ or a size above the limit is answered with an error; an upload
\* request answered with an error, or carrying no file, adds no record; every
\* record there is has an audio/ MIME type and a size within the limit.
C20_UploadRejected ==
    [][/\ HandlerStep("upload") =>
              LET file == lastRequest'.file
              IN  /\ (/\ file.present
                      /\ \/ ~StartsWith(file.mimetype, AudioPrefix)
                         \/ file.size > FileSizeLimit)
                         => lastResponse'.code >= 400
                  /\ (lastResponse'.code >= 400 \/ ~file.present) => assets' = assets
       /\ \A id \in DOMAIN assets' :
              /\ StartsWith(assets'[id].mimeType, AudioPrefix)
              /\ assets'[id].size <= FileSizeLimit]_vars

\* an upload above the size limit has been refused and no record exists
C20_Witness ==
    /\ lastRequest.route = "upload"
    /\ lastRequest.file = File(MimeAudioMpeg, FileSizeLimit + 1)
    /\ lastResponse.code >= 400
    /\ assets = <<>>

----------------------------------------------------------------------------
(* Properties of the merge submission *)

\* C21: while the latest request is a merge submission whose fileIds is
\* missing, not an array or empty, its answer is 400 "File IDs are required"
\* and the step adds no job row, links no files and schedules no task.
C21_InvalidSubmissionRejected ==
    [][(/\ lastRequest'.route = "merge"
        /\ \/ ~lastRequest'.body.fileIds.isArray
           \/ lastRequest'.body.fileIds.ids = <<>>)
           => /\ lastResponse' = Response(400, "File IDs are required", NoJob)
              /\ Len(jobs') = Len(jobs)
              /\ jobFiles' = jobFiles
              /\ Len(task') = Len(task)
              /\ \A j \in JobIds : task'[j] = "scheduled" => task[j] = "scheduled"]_vars

\* an empty array has been refused after an earlier submission was accepted
C21_Witness ==
    /\ lastRequest.route = "merge"
    /\ lastRequest.body.fileIds = [isArray |-> TRUE, ids |-> <<>>]
    /\ lastResponse.code = 400
    /\ Len(jobs) = 1
    /\ Len(task) = 1

\* C22: no step removes a job row, and once a job is completed or failed
\* GET /api/mixmerge/jobs/:id answers it with that status and that output
\* reference after every further step.
C22_JobsAreKept ==
    [][/\ Len(jobs') >= Len(jobs)
       /\ \A j \in JobIds :
              /\ GetJob(j)'.code = 200
              /\ GetJob(j)'.job.id = j
              /\ jobs[j].status \in Terminal =>
                     /\ GetJob(j)'.job.status = GetJob(j).job.status
                     /\ GetJob(j)'.job.outputFile = GetJob(j).job.outputFile]_vars

\* a job is completed, its output reference in place, a progress write has
\* reached it since, and the other job is still running its engine
C22_Witness ==
    /\ \E j \in JobIds :
           /\ GetJob(j).job.status = "completed"
           /\ GetJob(j).job.outputFile = MergedName(j)
           /\ GetJob(j).job.progress # 100
    /\ \E j \in JobIds : task[j] = "merging"

\* the pending and processing jobs that name asset id among their inputs
JobsInFlightOn(id) ==
    {j \in JobIds :
        /\ jobs[j].status \in {"pending", "processing"}
        /\ \E i \in DOMAIN jobFiles[j] : jobFiles[j][i] = id}

\* C25: a delete request of the uploader for a stored asset that a pending or
\* processing job names is answered 200 with the record gone (500, with
\* nothing changed, if a storage call threw); and a job whose task resolved an
\* id to no record never has its engine running and is never completed.
C25_DeleteIgnoresJobs ==
    [][/\ (/\ HandlerStep("delete")
           /\ hasAudioFile(lastRequest'.id)
           /\ assets[lastRequest'.id].uploadedBy = lastRequest'.userId
           /\ JobsInFlightOn(lastRequest'.id) # {})
              => \/ /\ lastResponse'.code = 200
                    /\ lastRequest'.id \notin DOMAIN assets'
                    /\ jobs' = jobs
                 \/ /\ lastResponse' = StorageFailed("Failed to delete audio file")
                    /\ assets' = assets
       /\ \A j \in JobIds :
              (\E i \in DOMAIN filePaths'[j] : filePaths'[j][i] = UndefinedName)
                 => /\ task'[j] \notin {"merging", "completing"}
                    /\ jobs'[j].status # "completed"
                    /\ jobs'[j].outputFile = Null]_vars

\* the asset was deleted under two jobs: one has resolved it to nothing and
\* failed, the other is still to resolve it, and record and file are gone
C25_Witness ==
    \E j \in JobIds, k \in JobIds :
        /\ jobFiles[j] = <<1>> /\ jobFiles[k] = <<1>>
        /\ nextAssetId > 1
        /\ ~hasAudioFile(1)
        /\ AudioName(1) \notin disk
        /\ filePaths[j] = <<UndefinedName>>
        /\ jobs[j].status = "failed"
        /\ jobs[k].status = "processing"
        /\ task[k] = "resolving"

\* the task of job j has resolved one of its ids to no record
Unresolved(j) ==
    /\ j \in JobIds
    /\ \E i \in DOMAIN filePaths[j] : filePaths[j][i] = UndefinedName

\* C26: when a task resolves its ids while one of them has no stored asset,
\* its paths hold uploads/undefined, which is no file of the uploads directory;
\* such a job never has its engine running and never gets an output reference
\* or an output file, and it ends failed.
C26_MissingAssetFails ==
    /\ [][\A j \in JobIds :
              (/\ task[j] = "resolving"
               /\ task'[j] = "resolved"
               /\ \E i \in DOMAIN jobFiles[j] : ~hasAudioFile(jobFiles[j][i]))
                  => /\ Len(filePaths'[j]) = Len(jobFiles[j])
                     /\ \E i \in DOMAIN filePaths'[j] : filePaths'[j][i] = UndefinedName
                     /\ UndefinedName \notin disk']_vars
    /\ [](\A j \in 1..MaxJobs :
              Unresolved(j) =>
                  /\ task[j] \notin {"merging", "completing"}
                  /\ jobs[j].outputFile = Null
                  /\ MergedName(j) \notin disk)
    /\ \A j \in 1..MaxJobs :
           Unresolved(j) ~> (j \in JobIds /\ jobs[j].status = "failed")

\* a job that named an id no upload ever got has failed without any output
C26_Witness ==
    \E j \in JobIds :
        /\ jobFiles[j] = <<MaxAssets + 1>>
        /\ filePaths[j] = <<UndefinedName>>
        /\ task[j] = "done"
        /\ jobs[j].status = "failed"
        /\ jobs[j].outputFile = Null
        /\ MergedName(j) \notin disk

\* the jobs whose engine is running
EnginesRunning == {j \in JobIds : task[j] = "merging"}

\* C24: whatever the other jobs are doing, a scheduled task can start, a
\* started task can resolve its inputs, a task whose inputs exist can spawn its
\* engine, and a valid submission is accepted with 200.
C24_NoQueueing ==
    /\ \A j \in JobIds :
           /\ task[j] = "scheduled" =>
                  ENABLED (TaskStart(j, TRUE) /\ task'[j] = "resolving")
           /\ task[j] = "resolving" =>
                  ENABLED (TaskResolve(j, TRUE) /\ task'[j] = "resolved")
           /\ (task[j] = "resolved" /\ AllInputsExist(filePaths[j])) =>
                  ENABLED (TaskMerge(j) /\ task'[j] = "merging")
    /\ Len(jobs) < MaxJobs =>
           ENABLED (/\ SubmitMerge([isArray |-> TRUE, ids |-> <<1>>], FALSE, TRUE, TRUE)
                    /\ lastResponse'.code = 200
                    /\ task'[Len(jobs) + 1] = "scheduled")

\* every job there can be has its engine running at the same time
C24_Witness ==
    /\ Len(jobs) = MaxJobs
    /\ Cardinality(EnginesRunning) = MaxJobs

\* the labels in front of the concat of a filter expression: its inputs
ConcatInputs(filter, n) == SubSeq(filter, Len(filter) - 1 - n, Len(filter) - 2)

\* C27: the engine of a job is given the stored files of the submitted ids in
\* the order of the list, one input per entry also where an id repeats, and
\* the i-th input of the concat is the stream of input i - 1 (through its
\* silenceremove filter when removeSilence is set).
C27_InputsInSubmittedOrder ==
    \A j \in JobIds :
        task[j] \in {"merging", "completing", "done"} =>
            LET call == EngineCall(j)
                n == Len(jobFiles[j])
            IN  /\ call.spawned
                /\ Len(call.inputs) = n
                /\ \A i \in 1..n : call.inputs[i] = assets[jobFiles[j][i]].filename
                /\ \A i \in 1..n :
                       IF silenceFlags[j]
                       THEN /\ ConcatInputs(call.filter, n)[i] = CleanLabel(i - 1)
                            /\ \E p \in DOMAIN call.filter :
                                   /\ p + 2 <= Len(call.filter)
                                   /\ call.filter[p] = StreamLabel(i - 1)
                                   /\ call.filter[p + 2] = CleanLabel(i - 1)
                       ELSE ConcatInputs(call.filter, n)[i] = StreamLabel(i - 1)

\* the engine of a job that listed asset 2, asset 1 and asset 2 again is running
C27_Witness ==
    \E j \in JobIds :
        /\ jobFiles[j] = <<2, 1, 2>>
        /\ task[j] = "merging"
        /\ EngineCall(j).inputs = <<AudioName(2), AudioName(1), AudioName(2)>>

\* the latest request is a merge submission whose fileIds is an array of one id
SingleIdSubmitted ==
    /\ lastRequest.route = "merge"
    /\ lastRequest.body.fileIds.isArray
    /\ Len(lastRequest.body.fileIds.ids) = 1

\* C28: a submission with exactly one asset id is accepted for both values of
\* removeSilence: it is answered 200 with a pending job, not with a validation
\* error, the job has its row, and the engine of a job with one input is run
\* with concat n=1, fed by one silenceremove filter when removeSilence is set.
C28_SingleInputAccepted ==
    /\ SingleIdSubmitted =>
           /\ lastResponse.code = 200
           /\ lastResponse.job.status = "pending"
           /\ lastResponse.job.id \in JobIds
           /\ jobFiles[lastResponse.job.id] = lastRequest.body.fileIds.ids
           /\ silenceFlags[lastResponse.job.id] = lastRequest.body.removeSilence
    /\ \A j \in JobIds :
           (Len(jobFiles[j]) = 1 /\ task[j] \in {"merging", "completing", "done"}) =>
               /\ EngineCall(j).spawned
               /\ EngineCall(j).filter =
                      IF silenceFlags[j]
                      THEN <<StreamLabel(0), SilenceRemove, CleanLabel(0), Separator,
                             CleanLabel(0), Concat(1), OutLabel>>
                      ELSE <<StreamLabel(0), Concat(1), OutLabel>>

\* a one-id submission without removeSilence has just been answered with its
\* pending job while the engine of an earlier one-id job with removeSilence runs
C28_Witness ==
    /\ SingleIdSubmitted
    /\ ~lastRequest.body.removeSilence
    /\ lastResponse.code = 200
    /\ lastResponse.job.status = "pending"
    /\ \E j \in JobIds :
           /\ Len(jobFiles[j]) = 1
           /\ silenceFlags[j]
           /\ task[j] = "merging"
           /\ Concat(1) \in Range(EngineCall(j).filter)

\* the writes issued for job j and not applied yet grow by one in this step
ProgressIssued(j) == BagCardinality(inflight'[j]) > BagCardinality(inflight[j])
\* one of them is applied in this step
ProgressApplied(j) == BagCardinality(inflight'[j]) < BagCardinality(inflight[j])

\* C29: a progress event of the engine of a job issues exactly one write, a
\* patch of the progress field alone whose value is the floor of the reported
\* percent (-1.5 gives -2, 120.6 gives 120) or 0 for an event without percent,
\* and changes no row; applying the write changes the progress of the row to
\* that value and leaves its status, output reference and completion time.
C29_ProgressWritesOnlyProgress ==
    [][\A j \in JobIds :
          /\ ProgressIssued(j) =>
                 /\ BagCardinality(inflight'[j] (-) inflight[j]) = 1
                 /\ \A patch \in BagToSet(inflight'[j] (-) inflight[j]) :
                        /\ DOMAIN patch = {"progress"}
                        /\ patch.progress \in {0, -2, 120}
                 /\ jobs' = jobs
          /\ ProgressApplied(j) =>
                 /\ BagCardinality(inflight[j] (-) inflight'[j]) = 1
                 /\ \A patch \in BagToSet(inflight[j] (-) inflight'[j]) :
                        jobs'[j] = [jobs[j] EXCEPT !.progress = patch.progress]
                 /\ jobs'[j].status = jobs[j].status
                 /\ jobs'[j].outputFile = jobs[j].outputFile
                 /\ jobs'[j].completedAt = jobs[j].completedAt]_vars

\* a progress write with the floor of 120.6 has been applied to a job whose
\* engine is still running: the row is processing with progress 120
C29_Witness ==
    \E j \in JobIds :
        /\ task[j] = "merging"
        /\ inflight[j] = EmptyBag
        /\ jobs[j].progress = 120
        /\ jobs[j].status = "processing"
        /\ jobs[j].outputFile = Null
        /\ jobs[j].completedAt = Null

\* C30: a job has a completion time exactly when its status is completed; the
\* step that writes the completion time writes status completed, progress 100
\* and the output reference with it, and a failed job has none.
C30_CompletedAtIffCompleted ==
    /\ [](\A j \in JobIds : (jobs[j].completedAt # Null) <=> (jobs[j].status = "completed"))
    /\ [][\A j \in JobIds :
             jobs'[j].completedAt # jobs[j].completedAt =>
                 /\ jobs[j].completedAt = Null
                 /\ jobs'[j].completedAt = Now
                 /\ jobs'[j].status = "completed"
                 /\ jobs'[j].progress = 100
                 /\ jobs'[j].outputFile = MergedName(j)]_vars

\* one job is completed with its completion time and another has failed
\* without one
C30_Witness ==
    \E j \in JobIds, k \in JobIds :
        /\ jobs[j].status = "completed"
        /\ jobs[j].completedAt = Now
        /\ task[j] = "done"
        /\ jobs[k].status = "failed"
        /\ jobs[k].completedAt = Null

----------------------------------------------------------------------------
(* Properties of the static route *)

\* C23: every request of the static route was answered either with a file
\* directly inside uploads/ or with 404.
C23_ServesOnlyFromUploads ==
    \A k \in DOMAIN served :
        IF served[k].answer.code = 200
        THEN /\ Len(served[k].answer.sent) = 2
             /\ served[k].answer.sent[1] = UploadsDir
        ELSE served[k].answer = FileNotFound

====
